---------------------------- MODULE Spec2Model ----------------------------
(***************************************************************************)
(* Lucky Triple backend (src/backend/server.js): accounts, deposits by     *)
(* payment webhook, the three-digit wager, the withdrawal workflow and the *)
(* admin operations, as a state machine over the document store.           *)
(*                                                                         *)
(* Every REST handler is one action: it reads the collections, runs the    *)
(* handler's checks in the order of the code and writes the collections.   *)
(* Money is modelled in whole currency units (JavaScript Numbers that are  *)
(* integers); text that the code parses (amounts, guesses, emails) is a    *)
(* sequence of one-character strings, so that parseFloat, parseInt and     *)
(* toLowerCase/includes are computed and not assumed.                      *)
(***************************************************************************)
EXTENDS Integers, Sequences, FiniteSets, TLC

VARIABLES
    users,          \* User collection: sequence of documents, _id = index
    transactions,   \* Transaction collection: sequence of documents, _id = index
    games,          \* GameHistory collection: sequence of documents
    settings,       \* GameSettings collection: <<>> or <<the singleton document>>
    req,            \* the request being answered
    res,            \* the response in flight to the client
    replay,         \* a payment callback the provider delivers again and again
    inflight,       \* requests whose handlers run interleaved, step by step
    smsLogs         \* SMSLog collection: sequence of documents

vars == <<users, transactions, games, settings, req, res, replay, inflight,
          smsLogs>>

-----------------------------------------------------------------------------
(* Bounds of the model *)

MaxTx      == 2     \* Transaction documents
MaxGames   == 1     \* GameHistory documents
MaxBalance == 1     \* |balance| a deposit or credit may reach
MaxDigit   == 1     \* digits 0..MaxDigit drawn, except in SpecMatch (all ten)
MaxDeliveries == 3  \* deliveries of one payment callback in SpecReplay

-----------------------------------------------------------------------------
(* Text and numbers *)

DigitChars == <<"0", "1", "2", "3", "4", "5", "6", "7", "8", "9">>

\* the value of each digit character
DigitValue == [c \in {DigitChars[i] : i \in 1..10} |->
                  (CHOOSE i \in 1..10 : DigitChars[i] = c) - 1]

IsDigit(c) == c \in DOMAIN DigitValue

DigitVal(c) == DigitValue[c]

RECURSIVE DigitsPrefix(_)
DigitsPrefix(s) ==
    IF s = <<>> \/ ~IsDigit(Head(s)) THEN <<>>
    ELSE <<Head(s)>> \o DigitsPrefix(Tail(s))

RECURSIVE DecVal(_)
DecVal(s) ==
    IF s = <<>> THEN 0
    ELSE 10 * DecVal(SubSeq(s, 1, Len(s) - 1)) + DigitVal(s[Len(s)])

\* A JavaScript Number: NaN, or an integer value.
NaN    == [nan |-> TRUE, val |-> 0]
Num(n) == [nan |-> FALSE, val |-> n]

\* Optional sign, then the longest run of digits; NaN when there is none.
ParsePrefix(s) ==
    LET signed == s # <<>> /\ Head(s) \in {"-", "+"}
        body   == IF signed THEN Tail(s) ELSE s
        d      == DigitsPrefix(body)
    IN  IF d = <<>> THEN NaN
        ELSE IF signed /\ Head(s) = "-" THEN Num(0 - DecVal(d))
        ELSE Num(DecVal(d))

parseFloatMut(s) ==
    ParsePrefix(IF s # <<>> /\ Head(s) = "-" THEN Tail(s) ELSE s)

\* parseFloat(amount)
parseFloat(s) == ParsePrefix(s)


\* String.prototype.toLowerCase on the letters the model's emails use.
UpperChars == <<"A", "D", "M", "I", "N">>
LowerChars == <<"a", "d", "m", "i", "n">>

LowerChar(c) ==
    IF \E i \in 1..Len(UpperChars) : UpperChars[i] = c
    THEN LowerChars[CHOOSE i \in 1..Len(UpperChars) : UpperChars[i] = c]
    ELSE c

toLowerCaseMut(s) == s

toLowerCase(s) == [i \in 1..Len(s) |-> LowerChar(s[i])]

\* String.prototype.includes
includes(s, sub) ==
    \E i \in 1..(Len(s) - Len(sub) + 1) : SubSeq(s, i, i + Len(sub) - 1) = sub

AdminWord == <<"a", "d", "m", "i", "n">>

\* bcrypt.hash: the stored credential is not the password
bcryptHash(pw) == <<"bcrypt", pw>>

-----------------------------------------------------------------------------
(* The document store and the responses *)

DB == [users |-> users, transactions |-> transactions,
       games |-> games, settings |-> settings]

\* res.status(code).json({ success: false, error })
Fail(db, code, error) ==
    [db |-> db, code |-> code, success |-> FALSE, error |-> error, sms |-> <<>>]

OkMut(db, sms) ==
    IF \A k \in DOMAIN sms : sms[k]
    THEN [db |-> db, code |-> 200, success |-> TRUE, error |-> "", sms |-> sms]
    ELSE [db |-> db, code |-> 500, success |-> FALSE, error |-> "SMS failed",
          sms |-> sms]

\* res.json({ success: true, ... }); sms: the outcome of each sendSMS call made
Ok(db, sms) ==
    [db |-> db, code |-> 200, success |-> TRUE, error |-> "", sms |-> sms]

SetBalanceMut(db, uid, b) ==
    [db EXCEPT !.users = [i \in DOMAIN @ |-> [@[i] EXCEPT !.balance = b]]]

\* user.balance = b; await user.save()
SetBalance(db, uid, b) == [db EXCEPT !.users[uid].balance = b]

\* payloqaAPI.sendSMS: never throws; the k-th call of a handler succeeds
\* when the provider accepts it (net[k]) and returns success: false otherwise.
sendSMS(net, k) == net[k]

-----------------------------------------------------------------------------
(* Authentication middleware *)

NoToken      == [kind |-> "none",    id |-> 0, isAdmin |-> FALSE]
InvalidToken == [kind |-> "invalid", id |-> 0, isAdmin |-> FALSE]

\* jwt.sign({ id, email, isAdmin }) at signup and login
TokenOf(us, i) == [kind |-> "valid", id |-> i, isAdmin |-> us[i].isAdmin]

\* 0: next(); otherwise the status code of the rejection
authenticateToken(tok) ==
    IF tok.kind = "none" THEN 401
    ELSE IF tok.kind = "invalid" THEN 403
    ELSE 0

requireAdminMut(tok) == 0

requireAdmin(tok) == IF ~tok.isAdmin THEN 403 ELSE 0

AuthError(code) ==
    IF code = 401 THEN "Access token required" ELSE "Invalid or expired token"

-----------------------------------------------------------------------------
(* POST /api/auth/signup *)

signup(db, body, net) ==
    IF body.email = <<>> \/ body.password = "" \/ body.phone = ""
    THEN Fail(db, 400, "All fields are required")
    ELSE IF \E i \in DOMAIN db.users : db.users[i].email = body.email
    THEN Fail(db, 400, "Email already exists")
    ELSE LET user == [email    |-> body.email,
                      password |-> bcryptHash(body.password),
                      phone    |-> body.phone,
                      balance  |-> 0,
                      isAdmin  |-> includes(toLowerCase(body.email), AdminWord)]
         IN  Ok([db EXCEPT !.users = Append(@, user)], <<sendSMS(net, 1)>>)

-----------------------------------------------------------------------------
(* POST /api/payments/webhook *)

creditDepositMut(balance, numAmount) == numAmount

\* user.balance = Number(user.balance) + numAmount
creditDeposit(balance, numAmount) == balance + numAmount

webhook(db, body, net) ==
    IF body.status = "completed"
    THEN IF body.metadata = <<>>
         THEN Fail(db, 500, "Callback processing failed")  \* metadata.user_id throws
         ELSE LET uid == body.metadata[1]
              IN  IF uid \notin DOMAIN db.users
                  THEN Fail(db, 404, "User not found")
                  ELSE LET numAmount == parseFloat(body.amount)
                       IN  IF numAmount.nan
                           THEN \* the Number path rejects NaN: user.save() throws
                                Fail(db, 500, "Callback processing failed")
                           ELSE Ok(SetBalance(db, uid,
                                       creditDeposit(db.users[uid].balance,
                                                     numAmount.val)),
                                   <<sendSMS(net, 1)>>)
    ELSE Ok(db, <<>>)   \* 'failed' and every other status: acknowledged

-----------------------------------------------------------------------------
(* Transaction documents *)

NoUser == 0           \* processedBy not set
NoRef  == "<unset>"   \* reference not set

Transaction(userId, type, amount, status, reference, processedAt, processedBy) ==
    [userId |-> userId, type |-> type, amount |-> amount, status |-> status,
     reference |-> reference, processedAt |-> processedAt,
     processedBy |-> processedBy]

AddTransactionMut(db, t) == db

AddTransaction(db, t) == [db EXCEPT !.transactions = Append(@, t)]

-----------------------------------------------------------------------------
(* POST /api/withdrawals/request *)

\* User.find({ isAdmin: true })
Admins(db) == {i \in DOMAIN db.users : db.users[i].isAdmin}

withdrawalRequestMut(db, tok, body, net) ==
    IF authenticateToken(tok) # 0
    THEN Fail(db, authenticateToken(tok), AuthError(authenticateToken(tok)))
    ELSE LET user   == db.users[tok.id]
             amount == body.amount
         IN  IF amount = 0 \/ amount <= 0
             THEN Fail(db, 400, "Invalid amount")
             ELSE IF user.balance < amount
             THEN Fail(db, 400, "Insufficient balance")
             ELSE Ok(AddTransaction(SetBalance(db, tok.id, user.balance - amount),
                         Transaction(tok.id, "withdrawal", amount, "pending",
                                     "WTH", FALSE, NoUser)),
                     [k \in 1..(1 + Cardinality(Admins(db))) |-> sendSMS(net, k)])

withdrawalRequest(db, tok, body, net) ==
    IF authenticateToken(tok) # 0
    THEN Fail(db, authenticateToken(tok), AuthError(authenticateToken(tok)))
    ELSE LET user   == db.users[tok.id]
             amount == body.amount
         IN  IF amount = 0 \/ amount <= 0
             THEN Fail(db, 400, "Invalid amount")
             ELSE IF user.balance < amount
             THEN Fail(db, 400, "Insufficient balance")
             ELSE Ok(AddTransaction(db,
                         Transaction(tok.id, "withdrawal", amount, "pending",
                                     "WTH", FALSE, NoUser)),
                     \* one SMS to the requester, then one to every admin
                     [k \in 1..(1 + Cardinality(Admins(db))) |-> sendSMS(net, k)])

-----------------------------------------------------------------------------
(* GameSettings and POST /api/game/play *)

NumDigits == 10    \* Math.floor(Math.random() * 10)

DefaultSettings ==
    [houseFee |-> 10, maxBet |-> 1000, minBet |-> 1,
     payoutMultipliers |-> [threeMatches |-> 100, twoMatches |-> 10, oneMatch |-> 2]]

\* let settings = await GameSettings.findOne();
\* if (!settings) settings = await GameSettings.create({});
EnsureSettings(db) ==
    IF db.settings = <<>> THEN [db EXCEPT !.settings = <<DefaultSettings>>] ELSE db

\* if (bet < settings.minBet || bet > settings.maxBet)
BetOutOfRange(bet, s) == bet < s.minBet \/ bet > s.maxBet

InsufficientMut(balance, bet) == balance <= 0

\* if (user.balance < bet)
Insufficient(balance, bet) == balance < bet

\* parseInt(guess): the guess as text, its leading integer or NaN
parseInt(s) == ParsePrefix(s)

\* The cast of a [Number] path: Number(text), NaN unless the whole text is a number
castNumber(s) ==
    LET signed == s # <<>> /\ Head(s) \in {"-", "+"}
        body   == IF signed THEN Tail(s) ELSE s
    IN  IF body = <<>> \/ DigitsPrefix(body) # body THEN NaN ELSE ParsePrefix(s)

\* guesses.forEach((guess, i) => { if (parseInt(guess) === winningNumbers[i]) matches++ })
MatchesMut(guesses, winningNumbers) ==
    Cardinality({i \in DOMAIN guesses :
                    LET n == parseInt(guesses[i])
                    IN  ~n.nan /\ \E j \in DOMAIN winningNumbers :
                                     n.val = winningNumbers[j]})

\* (NaN === n is false)
Matches(guesses, winningNumbers) ==
    Cardinality({i \in DOMAIN guesses :
                    LET n == parseInt(guesses[i])
                    IN  ~n.nan /\ n.val = winningNumbers[i]})

WinAmount(bet, matches, s) ==
    IF matches = 3 THEN bet * s.payoutMultipliers.threeMatches
    ELSE IF matches = 2 THEN bet * s.payoutMultipliers.twoMatches
    ELSE IF matches = 1 THEN bet * s.payoutMultipliers.oneMatch
    ELSE 0

ProfitMut(winAmount, bet) == winAmount

\* const profit = winAmount - bet
Profit(winAmount, bet) == winAmount - bet

WagerTransactionsMut(db, uid, bet, winAmount) ==
    LET d == AddTransaction(db,
                 Transaction(uid, "bet", bet, "completed", NoRef, TRUE, NoUser))
    IN  IF winAmount > 0
        THEN AddTransaction(d,
                 Transaction(uid, "win", winAmount - bet, "completed", NoRef, TRUE,
                             NoUser))
        ELSE d

\* The ledger entries of a settled wager
WagerTransactions(db, uid, bet, winAmount) ==
    LET d == AddTransaction(db,
                 Transaction(uid, "bet", bet, "completed", NoRef, TRUE, NoUser))
    IN  IF winAmount > 0
        THEN AddTransaction(d,
                 Transaction(uid, "win", winAmount, "completed", NoRef, TRUE, NoUser))
        ELSE d

\* SMS for big wins
WinSMS(matches, net) == IF matches >= 2 THEN <<sendSMS(net, 1)>> ELSE <<>>

play(db, tok, body, winningNumbers, net) ==
    IF authenticateToken(tok) # 0
    THEN Fail(db, authenticateToken(tok), AuthError(authenticateToken(tok)))
    ELSE
    LET bet     == body.bet
        guesses == body.guesses
    IN
    IF bet = 0 \/ bet <= 0 \/ Len(guesses) # 3
    THEN Fail(db, 400, "Invalid game parameters")
    ELSE
    LET db1 == EnsureSettings(db)
        s   == db1.settings[1]
        user == db1.users[tok.id]
    IN
    IF BetOutOfRange(bet, s)
    THEN Fail(db1, 400, "Bet must be between")
    ELSE IF Insufficient(user.balance, bet)
    THEN Fail(db1, 400, "Insufficient balance")
    ELSE
    LET matches       == Matches(guesses, winningNumbers)
        winAmount     == WinAmount(bet, matches, s)
        profit        == Profit(winAmount, bet)
        balanceBefore == user.balance
        db2           == SetBalance(db1, tok.id, user.balance + profit)
    IN
    LET cast == [i \in 1..3 |-> castNumber(guesses[i])]
    IN
    IF \E i \in 1..3 : cast[i].nan
    THEN \* gameHistory.save() fails its validation after user.save()
         Fail(db2, 500, "Game error occurred")
    ELSE
    LET gameHistory ==
            [userId |-> tok.id, betAmount |-> bet,
             guesses |-> [i \in 1..3 |-> cast[i].val],
             winningNumbers |-> winningNumbers, matches |-> matches,
             profit |-> profit, balanceBefore |-> balanceBefore,
             balanceAfter |-> db2.users[tok.id].balance]
        db3 == [db2 EXCEPT !.games = Append(@, gameHistory)]
    IN  Ok(WagerTransactions(db3, tok.id, bet, winAmount), WinSMS(matches, net))

-----------------------------------------------------------------------------
(* Admin operations *)

\* authenticateToken, requireAdmin: 0 when both pass
AdminGate(tok) ==
    IF authenticateToken(tok) # 0 THEN authenticateToken(tok) ELSE requireAdmin(tok)

AdminGateFail(db, tok) ==
    IF authenticateToken(tok) # 0
    THEN Fail(db, authenticateToken(tok), AuthError(authenticateToken(tok)))
    ELSE Fail(db, 403, "Admin access required")

\* POST /api/admin/credit-user
creditUser(db, tok, body, net) ==
    IF AdminGate(tok) # 0 THEN AdminGateFail(db, tok)
    ELSE IF body.userId = 0 \/ body.amount = 0 \/ body.amount <= 0
    THEN Fail(db, 400, "Invalid parameters")
    ELSE IF body.userId \notin DOMAIN db.users
    THEN Fail(db, 404, "User not found")
    ELSE LET db1 == SetBalance(db, body.userId,
                               db.users[body.userId].balance + body.amount)
         IN  Ok(AddTransaction(db1,
                    Transaction(body.userId, "credit", body.amount, "completed",
                                IF body.reason = "" THEN "Admin credit"
                                                    ELSE body.reason,
                                TRUE, tok.id)),
                <<sendSMS(net, 1)>>)

IsPendingMut(t) == t.status # "approved"

\* if (transaction.status !== 'pending')
IsPending(t) == t.status = "pending"

CoversMut(balance, amount) == TRUE

\* if (user.balance < transaction.amount)
Covers(balance, amount) == ~(balance < amount)

\* POST /api/admin/approve-withdrawal
approveWithdrawal(db, tok, body, net) ==
    IF AdminGate(tok) # 0 THEN AdminGateFail(db, tok)
    ELSE IF body.transactionId \notin DOMAIN db.transactions
    THEN Fail(db, 404, "Transaction not found")
    ELSE
    LET transaction == db.transactions[body.transactionId]
        uid         == transaction.userId
    IN
    IF ~IsPending(transaction)
    THEN Fail(db, 400, "Transaction already processed")
    ELSE IF ~Covers(db.users[uid].balance, transaction.amount)
    THEN Fail(db, 400, "User has insufficient balance")
    ELSE LET db1 == SetBalance(db, uid, db.users[uid].balance - transaction.amount)
         IN  Ok([db1 EXCEPT !.transactions[body.transactionId] =
                     [@ EXCEPT !.status = "approved", !.processedAt = TRUE,
                               !.processedBy = tok.id]],
                <<sendSMS(net, 1)>>)

\* POST /api/admin/reject-withdrawal
rejectWithdrawal(db, tok, body, net) ==
    IF AdminGate(tok) # 0 THEN AdminGateFail(db, tok)
    ELSE IF body.transactionId \notin DOMAIN db.transactions
    THEN Fail(db, 404, "Transaction not found")
    ELSE IF ~IsPending(db.transactions[body.transactionId])
    THEN Fail(db, 400, "Transaction already processed")
    ELSE Ok([db EXCEPT !.transactions[body.transactionId] =
                 [@ EXCEPT !.status = "rejected", !.processedAt = TRUE,
                           !.processedBy = tok.id,
                           !.reference = IF body.reason = ""
                                         THEN "Rejected by admin"
                                         ELSE body.reason]],
            <<sendSMS(net, 1)>>)

MultKeys == {"threeMatches", "twoMatches", "oneMatch"}

\* settings.payoutMultipliers = payoutMultipliers: the nested object is set
\* from the object given; an entry it does not give is read back as its default
SetMultipliers(given) ==
    [k \in MultKeys |->
        IF k \in DOMAIN given THEN given[k] ELSE DefaultSettings.payoutMultipliers[k]]

\* PUT /api/admin/game-settings; a field not supplied is <<>>
updateSettings(db, tok, body) ==
    IF AdminGate(tok) # 0 THEN AdminGateFail(db, tok)
    ELSE
    LET s0 == IF db.settings = <<>> THEN DefaultSettings ELSE db.settings[1]
        s1 == IF body.houseFee # <<>> THEN [s0 EXCEPT !.houseFee = body.houseFee[1]]
              ELSE s0
        s2 == IF body.maxBet # <<>> THEN [s1 EXCEPT !.maxBet = body.maxBet[1]] ELSE s1
        s3 == IF body.minBet # <<>> THEN [s2 EXCEPT !.minBet = body.minBet[1]] ELSE s2
        s4 == IF body.payoutMultipliers # <<>>
              THEN [s3 EXCEPT !.payoutMultipliers =
                                  SetMultipliers(body.payoutMultipliers[1])]
              ELSE s3
    IN  Ok([db EXCEPT !.settings = <<s4>>], <<>>)

-----------------------------------------------------------------------------
(* Requests of the full system specification *)

EmailAdmin == <<"A", "d", "m", "i", "n">>
EmailAmy   == <<"a", "m", "y">>

Emails == {EmailAdmin, EmailAmy}

SignupBodies ==
    {[email |-> e, password |-> "pw", phone |-> "0240000000"] : e \in Emails}
    \cup {[email |-> <<>>, password |-> "pw", phone |-> "0240000000"],
          [email |-> EmailAmy, password |-> "", phone |-> "0240000000"],
          [email |-> EmailAmy, password |-> "pw", phone |-> ""]}

\* ids a request may name: the documents there are, and one there is not
UserIds == 1..(Len(users) + 1)

TransactionIds == 1..(Len(transactions) + 1)

\* Bearer tokens: none, one that does not verify, and the token signup or
\* login issued to each account
Tokens == {NoToken, InvalidToken} \cup {TokenOf(users, i) : i \in DOMAIN users}

\* the bodies sent with a token: all of them with a token that verifies, one
\* representative with a token that is rejected before the body is read
BodiesFor(tok, bodies) ==
    IF tok.kind = "valid" THEN bodies ELSE {CHOOSE b \in bodies : TRUE}

\* outcomes of the n sendSMS calls a handler may make
Nets(n) == [1..n -> BOOLEAN]

WebhookBodies ==
    {[status |-> "completed", amount |-> a, metadata |-> <<i>>] :
        a \in { <<"1">>, <<"2">>, <<"-", "1">>, <<"x">>, <<"2", "x">> },
        i \in DOMAIN users}
    \cup {[status |-> "completed", amount |-> <<"1">>, metadata |-> <<>>],
          [status |-> "completed", amount |-> <<"1">>,
           metadata |-> <<Len(users) + 1>>],
          [status |-> "failed", amount |-> <<"1">>, metadata |-> <<1>>],
          [status |-> "processing", amount |-> <<"1">>, metadata |-> <<1>>]}

G000 == << <<"0">>, <<"0">>, <<"0">> >>
G01x == << <<"0">>, <<"1", "x">>, <<"x">> >>

PlayBodies ==
    {[bet |-> b, guesses |-> G000] : b \in 0..3}
    \cup {[bet |-> 1, guesses |-> <<>>],
          [bet |-> 1, guesses |-> G01x]}

\* the three digits drawn
Draws == [1..3 -> 0..MaxDigit]

WithdrawalBodies == {[amount |-> a] : a \in 0..1}

CreditBodies ==
    {[userId |-> i, amount |-> 1, reason |-> ""] : i \in UserIds}
    \cup {[userId |-> 0, amount |-> 1, reason |-> ""],
          [userId |-> 1, amount |-> 0, reason |-> ""],
          [userId |-> 1, amount |-> 0 - 1, reason |-> ""],
          [userId |-> 1, amount |-> 1, reason |-> "bonus"]}

ApproveBodies == {[transactionId |-> t] : t \in TransactionIds}

RejectBodies ==
    {[transactionId |-> t, reason |-> ""] : t \in TransactionIds}
    \cup {[transactionId |-> 1, reason |-> "fraud"]}

CustomMultipliers ==
    [threeMatches |-> 3, twoMatches |-> 0, oneMatch |-> -1]

\* a request that supplies one entry of the multiplier table
PartialMultipliers == [twoMatches |-> 0]

SettingsBodies ==
    {[houseFee |-> <<>>, maxBet |-> <<>>, minBet |-> <<>>,
      payoutMultipliers |-> <<>>],
     [houseFee |-> <<>>, maxBet |-> <<2>>, minBet |-> <<2>>,
      payoutMultipliers |-> <<CustomMultipliers>>],
     [houseFee |-> <<>>, maxBet |-> <<>>, minBet |-> <<>>,
      payoutMultipliers |-> <<PartialMultipliers>>]}

Abs(n) == IF n < 0 THEN 0 - n ELSE n

Bounded(db) ==
    /\ Len(db.transactions) <= MaxTx
    /\ Len(db.games) <= MaxGames

BalanceBounded(db) ==
    \A i \in DOMAIN db.users : Abs(db.users[i].balance) <= MaxBalance

NoRequest  == [op |-> "none"]
NoResponse == [code |-> 0, success |-> FALSE, error |-> "", sms |-> <<>>]

\* Requests are handled one at a time: the next one is taken when the
\* response to the last has been received.
Idle == res = NoResponse

\* One request handled to its response
Handle(request, r) ==
    /\ Bounded(r.db)
    /\ users' = r.db.users
    /\ transactions' = r.db.transactions
    /\ games' = r.db.games
    /\ settings' = r.db.settings
    /\ req' = request
    /\ res' = [code |-> r.code, success |-> r.success, error |-> r.error,
               sms |-> r.sms]

\* no handler is running step by step
NoInflight ==
    [start |-> [users |-> <<>>, transactions |-> <<>>, games |-> <<>>,
                settings |-> <<>>],
     procs |-> <<>>]

NoReplay == [body |-> [status |-> "none"], count |-> 0, start |-> 0]

Init ==
    /\ users = <<>>
    /\ transactions = <<>>
    /\ games = <<>>
    /\ settings = <<>>
    /\ req = NoRequest
    /\ res = NoResponse
    /\ replay = NoReplay
    /\ inflight = NoInflight
    /\ smsLogs = <<>>

Signup ==
    /\ Idle
    /\ UNCHANGED <<replay, inflight, smsLogs>>
    /\ \E body \in SignupBodies, net \in Nets(1) :
          Handle([op |-> "signup", body |-> body], signup(DB, body, net))

Webhook ==
    /\ Idle
    /\ UNCHANGED <<replay, inflight, smsLogs>>
    /\ \E body \in WebhookBodies, net \in Nets(1) :
          LET r == webhook(DB, body, net)
          IN  /\ BalanceBounded(r.db)
              /\ Handle([op |-> "webhook", body |-> body], r)

WithdrawalRequest ==
    /\ Idle
    /\ UNCHANGED <<replay, inflight, smsLogs>>
    /\ \E tok \in Tokens :
       \E body \in BodiesFor(tok, WithdrawalBodies), net \in Nets(1 + Len(users)) :
          Handle([op |-> "withdrawalRequest", token |-> tok, body |-> body],
                 withdrawalRequest(DB, tok, body, net))

\* The digits are drawn once the request has passed its validation; the SMS
\* call is made for a settled wager with two matches or more.
ZeroDraw == [i \in 1..3 |-> 0]

PlayDraws(tok, body) ==
    IF play(DB, tok, body, ZeroDraw, [k \in 1..1 |-> TRUE]).code \in {400, 401, 403}
    THEN {ZeroDraw} ELSE Draws

PlayNets(tok, body, winningNumbers) ==
    IF play(DB, tok, body, winningNumbers, [k \in 1..1 |-> TRUE]).sms = <<>>
    THEN {[k \in 1..1 |-> TRUE]} ELSE Nets(1)

Play ==
    /\ Idle
    /\ UNCHANGED <<replay, inflight, smsLogs>>
    /\ \E tok \in Tokens :
       \E body \in BodiesFor(tok, PlayBodies) :
       \E winningNumbers \in PlayDraws(tok, body) :
       \E net \in PlayNets(tok, body, winningNumbers) :
          LET r == play(DB, tok, body, winningNumbers, net)
          IN  \* a wager that fails after the balance is saved adds no document
              /\ r.code = 500 => BalanceBounded(r.db)
              /\ Handle([op |-> "play", token |-> tok, body |-> body], r)

CreditUser ==
    /\ Idle
    /\ UNCHANGED <<replay, inflight, smsLogs>>
    /\ \E tok \in Tokens :
       \E body \in BodiesFor(tok, CreditBodies), net \in Nets(1) :
          Handle([op |-> "creditUser", token |-> tok, body |-> body],
                 creditUser(DB, tok, body, net))

ApproveWithdrawal ==
    /\ Idle
    /\ UNCHANGED <<replay, inflight, smsLogs>>
    /\ \E tok \in Tokens :
       \E body \in BodiesFor(tok, ApproveBodies), net \in Nets(1) :
          Handle([op |-> "approveWithdrawal", token |-> tok, body |-> body],
                 approveWithdrawal(DB, tok, body, net))

RejectWithdrawal ==
    /\ Idle
    /\ UNCHANGED <<replay, inflight, smsLogs>>
    /\ \E tok \in Tokens :
       \E body \in BodiesFor(tok, RejectBodies), net \in Nets(1) :
          Handle([op |-> "rejectWithdrawal", token |-> tok, body |-> body],
                 rejectWithdrawal(DB, tok, body, net))

UpdateSettings ==
    /\ Idle
    /\ UNCHANGED <<replay, inflight, smsLogs>>
    /\ \E tok \in Tokens :
       \E body \in BodiesFor(tok, SettingsBodies) :
          Handle([op |-> "updateSettings", token |-> tok, body |-> body],
                 updateSettings(DB, tok, body))

\* The client receives the response.
Receive ==
    /\ ~Idle
    /\ req' = NoRequest
    /\ res' = NoResponse
    /\ UNCHANGED <<users, transactions, games, settings, replay, inflight, smsLogs>>

Next ==
    \/ Signup
    \/ Webhook
    \/ WithdrawalRequest
    \/ Play
    \/ CreditUser
    \/ ApproveWithdrawal
    \/ RejectWithdrawal
    \/ UpdateSettings
    \/ Receive

Spec == Init /\ [][Next]_vars

\* The wager subsystem: accounts, deposits, credits, settings and play
NextGame ==
    \/ Signup
    \/ Webhook
    \/ CreditUser
    \/ UpdateSettings
    \/ Play
    \/ Receive

SpecGame == Init /\ [][NextGame]_vars

\* The withdrawal workflow: accounts, deposits, request, approve and reject
NextWithdrawals ==
    \/ Signup
    \/ Webhook
    \/ WithdrawalRequest
    \/ ApproveWithdrawal
    \/ RejectWithdrawal
    \/ Receive

SpecWithdrawals == Init /\ [][NextWithdrawals]_vars

\* Deposits alone
NextDeposits ==
    \/ Signup
    \/ Webhook
    \/ Receive

SpecDeposits == Init /\ [][NextDeposits]_vars

\* The administrators, the settings they change and the credits they give
NextSettings ==
    \/ Signup
    \/ CreditUser
    \/ UpdateSettings
    \/ Receive

SpecSettings == Init /\ [][NextSettings]_vars

-----------------------------------------------------------------------------
(* The provider delivers one payment callback repeatedly *)

Account(email, balance) ==
    [email |-> email, password |-> bcryptHash("pw"), phone |-> "0240000000",
     balance |-> balance,
     isAdmin |-> includes(toLowerCase(email), AdminWord)]

\* Two accounts after their signups and some deposits, and a callback that
\* names one of them
InitReplay ==
    /\ \E a, b \in (0 - MaxBalance)..MaxBalance :
          users = <<Account(EmailAdmin, a), Account(EmailAmy, b)>>
    /\ transactions = <<>>
    /\ games = <<>>
    /\ settings = <<>>
    /\ req = NoRequest
    /\ res = NoResponse
    /\ \E body \in WebhookBodies :
          /\ body.status = "completed"
          /\ body.metadata # <<>>
          /\ body.metadata[1] \in DOMAIN users
          /\ replay = [body |-> body, count |-> 0,
                       start |-> users[body.metadata[1]].balance]
    /\ inflight = NoInflight
    /\ smsLogs = <<>>

Redeliver ==
    /\ Idle
    /\ replay.count < MaxDeliveries
    /\ \E net \in Nets(1) :
          Handle([op |-> "webhook", body |-> replay.body],
                 webhook(DB, replay.body, net))
    /\ replay' = [replay EXCEPT !.count = @ + 1]
    /\ UNCHANGED <<inflight, smsLogs>>

NextReplay ==
    \/ Redeliver
    \/ Receive

SpecReplay == InitReplay /\ [][NextReplay]_vars

-----------------------------------------------------------------------------
(* The draw and the match count of a wager, for every guess and every draw *)

DigitStrings == {<<DigitChars[i]>> : i \in 1..NumDigits}

\* const winningNumbers = [Math.floor(Math.random() * 10), ... three times]
AllDraws == [1..3 -> 0..(NumDigits - 1)]

\* A play request with three single-digit guesses has passed its validation
InitMatch ==
    /\ users = <<Account(EmailAmy, 1)>>
    /\ transactions = <<>>
    /\ games = <<>>
    /\ settings = <<>>
    /\ \E guesses \in [1..3 -> DigitStrings] :
          req = [op |-> "match", guesses |-> guesses]
    /\ res = NoResponse
    /\ replay = NoReplay
    /\ inflight = NoInflight
    /\ smsLogs = <<>>

\* The digits are drawn and the matches counted
DrawAndMatch ==
    /\ req.op = "match"
    /\ Idle
    /\ \E winningNumbers \in AllDraws :
          res' = [winningNumbers |-> winningNumbers,
                  matches |-> Matches(req.guesses, winningNumbers)]
    /\ UNCHANGED <<users, transactions, games, settings, req, replay, inflight, smsLogs>>

SpecMatch == InitMatch /\ [][DrawAndMatch]_vars

-----------------------------------------------------------------------------
(* Handlers running interleaved: every await of a handler is one step *)

NoTransaction == Transaction(NoUser, "none", 0, "none", NoRef, FALSE, NoUser)

\* A request accepted by the middleware, and the local variables of its handler
Proc(op, token, body) ==
    [op |-> op, token |-> token, body |-> body,
     pc |-> IF op = "play" THEN "findUser" ELSE "findTransaction",
     balanceRead |-> 0,             \* user.balance as it was loaded
     balance |-> 0,                 \* user.balance of the handler's document
     transaction |-> NoTransaction, \* the handler's transaction document
     s |-> DefaultSettings,         \* the handler's settings document
     winningNumbers |-> <<0, 0, 0>>, matches |-> 0, winAmount |-> 0,
     code |-> 0, sms |-> <<>>]

Local(p) == inflight.procs[p]

SetLocal(p, l) == inflight' = [inflight EXCEPT !.procs[p] = l]

\* return res.status(code).json(...)
Respond(l, code) == [l EXCEPT !.pc = "done", !.code = code]

SaveBalanceMut(stored, read, computed) == stored + (computed - read)

\* await user.save(): the document's balance is written if the handler
\* changed it, whatever is stored by then
SaveBalance(stored, read, computed) ==
    IF computed = read THEN stored ELSE computed

\* const user = await User.findById(req.user.id), then the first validation
PlayFindUser(p) ==
    LET l  == Local(p)
        l1 == [l EXCEPT !.balanceRead = users[l.token.id].balance,
                        !.balance = users[l.token.id].balance]
    IN  /\ l.op = "play" /\ l.pc = "findUser"
        /\ SetLocal(p, IF l.body.bet = 0 \/ l.body.bet <= 0
                          \/ Len(l.body.guesses) # 3
                       THEN Respond(l1, 400)
                       ELSE [l1 EXCEPT !.pc = "findSettings"])
        /\ UNCHANGED <<users, transactions, games, settings, req, res, replay, smsLogs>>

\* the checks, the draw and the payout, up to user.balance += profit
PlaySettled(l, s, winningNumbers) ==
    LET bet       == l.body.bet
        matches   == Matches(l.body.guesses, winningNumbers)
        winAmount == WinAmount(bet, matches, s)
    IN  IF BetOutOfRange(bet, s) THEN Respond(l, 400)
        ELSE IF Insufficient(l.balance, bet) THEN Respond(l, 400)
        ELSE [l EXCEPT !.s = s, !.winningNumbers = winningNumbers,
                       !.matches = matches, !.winAmount = winAmount,
                       !.balance = l.balance + Profit(winAmount, bet),
                       !.pc = "saveUser"]

\* let settings = await GameSettings.findOne()
PlayFindSettings(p) ==
    LET l == Local(p)
    IN  /\ l.op = "play" /\ l.pc = "findSettings"
        /\ IF settings = <<>>
           THEN SetLocal(p, [l EXCEPT !.pc = "createSettings"])
           ELSE \E winningNumbers \in Draws :
                   SetLocal(p, PlaySettled(l, settings[1], winningNumbers))
        /\ UNCHANGED <<users, transactions, games, settings, req, res, replay, smsLogs>>

\* settings = await GameSettings.create({})
PlayCreateSettings(p) ==
    LET l == Local(p)
    IN  /\ l.op = "play" /\ l.pc = "createSettings"
        /\ settings' = Append(settings, DefaultSettings)
        /\ \E winningNumbers \in Draws :
              SetLocal(p, PlaySettled(l, DefaultSettings, winningNumbers))
        /\ UNCHANGED <<users, transactions, games, req, res, replay, smsLogs>>

PlaySaveUserMut(p) ==
    LET l == Local(p)
    IN  /\ l.op = "play" /\ l.pc = "saveUser"
        /\ SetLocal(p, [l EXCEPT !.pc = "saveGame"])
        /\ UNCHANGED <<users, transactions, games, settings, req, res, replay, smsLogs>>

\* await user.save()
PlaySaveUser(p) ==
    LET l == Local(p)
    IN  /\ l.op = "play" /\ l.pc = "saveUser"
        /\ users' = [users EXCEPT ![l.token.id].balance =
                        SaveBalance(@, l.balanceRead, l.balance)]
        /\ SetLocal(p, [l EXCEPT !.pc = "saveGame"])
        /\ UNCHANGED <<transactions, games, settings, req, res, replay, smsLogs>>

\* await gameHistory.save()
PlaySaveGame(p) ==
    LET l    == Local(p)
        cast == [i \in 1..3 |-> castNumber(l.body.guesses[i])]
    IN  /\ l.op = "play" /\ l.pc = "saveGame"
        /\ IF \E i \in 1..3 : cast[i].nan
           THEN /\ SetLocal(p, Respond(l, 500))
                /\ UNCHANGED games
           ELSE /\ games' = Append(games,
                       [userId |-> l.token.id, betAmount |-> l.body.bet,
                        guesses |-> [i \in 1..3 |-> cast[i].val],
                        winningNumbers |-> l.winningNumbers,
                        matches |-> l.matches,
                        profit |-> Profit(l.winAmount, l.body.bet),
                        balanceBefore |-> l.balanceRead,
                        balanceAfter |-> l.balance])
                /\ SetLocal(p, [l EXCEPT !.pc = "saveBet"])
        /\ UNCHANGED <<users, transactions, settings, req, res, replay, smsLogs>>

\* after the ledger entries: the SMS of a big win, or the response
PlayLedgerDone(l) ==
    IF l.matches >= 2 THEN [l EXCEPT !.pc = "notify"] ELSE Respond(l, 200)

\* await Transaction.create({ type: 'bet', ... })
PlaySaveBet(p) ==
    LET l == Local(p)
    IN  /\ l.op = "play" /\ l.pc = "saveBet"
        /\ transactions' = Append(transactions,
               Transaction(l.token.id, "bet", l.body.bet, "completed", NoRef,
                           TRUE, NoUser))
        /\ SetLocal(p, IF l.winAmount > 0 THEN [l EXCEPT !.pc = "saveWin"]
                       ELSE PlayLedgerDone(l))
        /\ UNCHANGED <<users, games, settings, req, res, replay, smsLogs>>

\* await Transaction.create({ type: 'win', ... })
PlaySaveWin(p) ==
    LET l == Local(p)
    IN  /\ l.op = "play" /\ l.pc = "saveWin"
        /\ transactions' = Append(transactions,
               Transaction(l.token.id, "win", l.winAmount, "completed", NoRef,
                           TRUE, NoUser))
        /\ SetLocal(p, PlayLedgerDone(l))
        /\ UNCHANGED <<users, games, settings, req, res, replay, smsLogs>>

\* await payloqaAPI.sendSMS(...), then res.json
PlayNotify(p) ==
    LET l == Local(p)
    IN  /\ l.op = "play" /\ l.pc = "notify"
        /\ \E net \in Nets(1) :
              SetLocal(p, [Respond(l, 200) EXCEPT !.sms = <<sendSMS(net, 1)>>])
        /\ UNCHANGED <<users, transactions, games, settings, req, res, replay, smsLogs>>

\* const transaction = await Transaction.findById(transactionId)
ApproveFindTransaction(p) ==
    LET l == Local(p)
    IN  /\ l.op = "approveWithdrawal" /\ l.pc = "findTransaction"
        /\ SetLocal(p, IF l.body.transactionId \notin DOMAIN transactions
                       THEN Respond(l, 404)
                       ELSE [l EXCEPT !.transaction =
                                         transactions[l.body.transactionId],
                                      !.pc = "populateUser"])
        /\ UNCHANGED <<users, transactions, games, settings, req, res, replay, smsLogs>>

\* .populate('userId'), then the two checks and user.balance -= amount
ApprovePopulateUser(p) ==
    LET l  == Local(p)
        l1 == [l EXCEPT !.balanceRead = users[l.transaction.userId].balance,
                        !.balance = users[l.transaction.userId].balance]
    IN  /\ l.op = "approveWithdrawal" /\ l.pc = "populateUser"
        /\ SetLocal(p, IF ~IsPending(l.transaction) THEN Respond(l1, 400)
                       ELSE IF ~Covers(l1.balance, l.transaction.amount)
                       THEN Respond(l1, 400)
                       ELSE [l1 EXCEPT !.balance = @ - l.transaction.amount,
                                       !.pc = "saveUser"])
        /\ UNCHANGED <<users, transactions, games, settings, req, res, replay, smsLogs>>

\* await user.save()
ApproveSaveUser(p) ==
    LET l == Local(p)
    IN  /\ l.op = "approveWithdrawal" /\ l.pc = "saveUser"
        /\ users' = [users EXCEPT ![l.transaction.userId].balance =
                        SaveBalance(@, l.balanceRead, l.balance)]
        /\ SetLocal(p, [l EXCEPT !.pc = "saveTransaction"])
        /\ UNCHANGED <<transactions, games, settings, req, res, replay, smsLogs>>

\* transaction.status = 'approved'; ...; await transaction.save()
ApproveSaveTransaction(p) ==
    LET l == Local(p)
    IN  /\ l.op = "approveWithdrawal" /\ l.pc = "saveTransaction"
        /\ transactions' = [transactions EXCEPT ![l.body.transactionId] =
                               [@ EXCEPT !.status = "approved",
                                         !.processedAt = TRUE,
                                         !.processedBy = l.token.id]]
        /\ SetLocal(p, [l EXCEPT !.pc = "notify"])
        /\ UNCHANGED <<users, games, settings, req, res, replay, smsLogs>>

\* await payloqaAPI.sendSMS(...), then res.json
ApproveNotify(p) ==
    LET l == Local(p)
    IN  /\ l.op = "approveWithdrawal" /\ l.pc = "notify"
        /\ \E net \in Nets(1) :
              SetLocal(p, [Respond(l, 200) EXCEPT !.sms = <<sendSMS(net, 1)>>])
        /\ UNCHANGED <<users, transactions, games, settings, req, res, replay, smsLogs>>

\* what a player sends twice at once, and what an administrator sends
\* meanwhile
RacePlay == Proc("play", [kind |-> "valid", id |-> 2, isAdmin |-> FALSE],
                 [bet |-> 1, guesses |-> G000])

RaceApprove ==
    Proc("approveWithdrawal", [kind |-> "valid", id |-> 1, isAdmin |-> TRUE],
         [transactionId |-> 1])

\* An administrator and a player who has deposited and asked for a withdrawal;
\* two requests that touch the player's balance arrive together
InitRace ==
    /\ \E b \in 1..MaxBalance :
          /\ users = <<Account(EmailAdmin, 0), Account(EmailAmy, b)>>
          /\ \E a \in 1..b :
                transactions = <<Transaction(2, "withdrawal", a, "pending",
                                             "WTH", FALSE, NoUser)>>
    /\ games = <<>>
    /\ settings \in {<<>>, <<DefaultSettings>>}
    /\ req = NoRequest
    /\ res = NoResponse
    /\ replay = NoReplay
    /\ smsLogs = <<>>
    /\ \E second \in {RacePlay, RaceApprove} :
          inflight = [start |-> DB, procs |-> <<RacePlay, second>>]

\* the requests running
Procs == DOMAIN inflight.procs

NextRace ==
    \/ \E p \in Procs : PlayFindUser(p)
    \/ \E p \in Procs : PlayFindSettings(p)
    \/ \E p \in Procs : PlayCreateSettings(p)
    \/ \E p \in Procs : PlaySaveUser(p)
    \/ \E p \in Procs : PlaySaveGame(p)
    \/ \E p \in Procs : PlaySaveBet(p)
    \/ \E p \in Procs : PlaySaveWin(p)
    \/ \E p \in Procs : PlayNotify(p)
    \/ \E p \in Procs : ApproveFindTransaction(p)
    \/ \E p \in Procs : ApprovePopulateUser(p)
    \/ \E p \in Procs : ApproveSaveUser(p)
    \/ \E p \in Procs : ApproveSaveTransaction(p)
    \/ \E p \in Procs : ApproveNotify(p)

SpecRace == InitRace /\ [][NextRace]_vars

\* One wager running step by step: a player with a balance sends a play
\* request; the guesses are three digits, or contain text that is no number
InitWager ==
    /\ \E b \in 1..(MaxBalance + 1) :
          users = <<Account(EmailAdmin, 0), Account(EmailAmy, b)>>
    /\ transactions = <<>>
    /\ games = <<>>
    /\ settings \in {<<>>, <<DefaultSettings>>}
    /\ req = NoRequest
    /\ res = NoResponse
    /\ replay = NoReplay
    /\ smsLogs = <<>>
    /\ \E body \in PlayBodies :
          inflight = [start |-> DB,
                      procs |-> <<Proc("play", TokenOf(users, 2), body)>>]

NextWager ==
    \/ \E p \in Procs : PlayFindUser(p)
    \/ \E p \in Procs : PlayFindSettings(p)
    \/ \E p \in Procs : PlayCreateSettings(p)
    \/ \E p \in Procs : PlaySaveUser(p)
    \/ \E p \in Procs : PlaySaveGame(p)
    \/ \E p \in Procs : PlaySaveBet(p)
    \/ \E p \in Procs : PlaySaveWin(p)
    \/ \E p \in Procs : PlayNotify(p)

SpecWager == InitWager /\ [][NextWager]_vars

-----------------------------------------------------------------------------
(* The dashboard *)

RECURSIVE SumAmount(_)
\* { $group: { _id: null, total: { $sum: '$amount' } } }, and total || 0
SumAmount(ts) ==
    IF ts = <<>> THEN 0 ELSE Head(ts).amount + SumAmount(Tail(ts))

\* Transaction.aggregate([{ $match: { type } }, { $group: ... }])
TotalOfType(db, type) ==
    SumAmount(SelectSeq(db.transactions, LAMBDA t : t.type = type))

\* Transaction.aggregate([{ $match: { type, status } }, { $group: ... }])
TotalOf(db, type, status) ==
    SumAmount(SelectSeq(db.transactions,
                        LAMBDA t : t.type = type /\ t.status = status))

houseProfitMut(totalBets, totalWins) == totalBets

\* houseProfit: (totalBets[0]?.total || 0) - (totalWins[0]?.total || 0)
houseProfit(totalBets, totalWins) == totalBets - totalWins

\* GET /api/admin/stats: the figures of the response
stats(db) ==
    LET players == SelectSeq(db.users, LAMBDA u : ~u.isAdmin)
        totalBets == TotalOfType(db, "bet")
        totalWins == TotalOfType(db, "win")
    IN  [totalUsers |-> Len(players),
         totalBalance |-> SumAmount([i \in DOMAIN players |->
                                        [amount |-> players[i].balance]]),
         totalDeposits |-> TotalOf(db, "deposit", "completed"),
         totalWithdrawals |-> TotalOf(db, "withdrawal", "approved"),
         totalBets |-> totalBets,
         totalWins |-> totalWins,
         pendingWithdrawals |->
             Len(SelectSeq(db.transactions,
                           LAMBDA t : t.type = "withdrawal" /\ t.status = "pending")),
         houseProfit |-> houseProfit(totalBets, totalWins)]

\* The dashboard request: the gate, then the figures of the stored documents
Stats ==
    /\ Idle
    /\ UNCHANGED <<replay, inflight, smsLogs>>
    /\ \E tok \in Tokens :
          IF AdminGate(tok) # 0
          THEN Handle([op |-> "stats", token |-> tok], AdminGateFail(DB, tok))
          ELSE /\ req' = [op |-> "stats", token |-> tok]
               /\ res' = [code |-> 200, success |-> TRUE, error |-> "",
                          sms |-> <<>>, stats |-> stats(DB)]
               /\ UNCHANGED <<users, transactions, games, settings>>

\* The wagers and the dashboard: accounts, deposits, credits, play and stats
NextStats ==
    \/ Signup
    \/ Webhook
    \/ CreditUser
    \/ Play
    \/ Stats
    \/ Receive

SpecStats == Init /\ [][NextStats]_vars

-----------------------------------------------------------------------------
(* POST /api/admin/send-sms *)

RECURSIVE BulkResults(_, _, _)
\* for (const phone of phones): one sendSMS call for each phone from the k-th
\* on, its outcome pushed to results
BulkResults(phones, net, k) ==
    IF k > Len(phones) THEN <<>>
    ELSE <<[phone |-> phones[k], success |-> sendSMS(net, k)]>>
         \o BulkResults(phones, net, k + 1)

sendBulkSMSMut(phones, net) ==
    LET results == SelectSeq(BulkResults(phones, net, 1), LAMBDA r : r.success)
    IN  [success |-> TRUE, total |-> Len(phones), sent |-> Len(results),
         failed |-> Len(phones) - Len(results), results |-> results]

\* payloqaAPI.sendBulkSMS(phones, message)
sendBulkSMS(phones, net) ==
    LET results      == BulkResults(phones, net, 1)
        successCount == Len(SelectSeq(results, LAMBDA r : r.success))
    IN  [success |-> TRUE, total |-> Len(phones), sent |-> successCount,
         failed |-> Len(phones) - successCount, results |-> results]

\* SMSLog document
SMSLog(phones, message, status, sentBy, response) ==
    [phones |-> phones, message |-> message, status |-> status,
     sentBy |-> sentBy, response |-> response]

\* an id of the request that is no ObjectId: the query rejects it (CastError)
BadId == 0 - 1

\* User.find({ _id: { $in: userIds } }): the accounts named, in stored order
FindIn(db, userIds) ==
    SelectSeq([i \in DOMAIN db.users |-> i],
              LAMBDA i : \E k \in DOMAIN userIds : userIds[k] = i)

\* the response of a handler and the SMSLog documents it created
Logged(r, logs) ==
    [db |-> r.db, code |-> r.code, success |-> r.success, error |-> r.error,
     sms |-> r.sms, logs |-> logs]

\* the catch block: SMSLog.create({ phones: req.body.userIds, ..., status:
\* 'failed' }), then 500
sendSmsFailed(db, tok, body, sms, message) ==
    Logged([Fail(db, 500, "Failed to send SMS") EXCEPT !.sms = sms],
           <<SMSLog([k \in DOMAIN body.userIds |-> ToString(body.userIds[k])],
                    body.message, "failed", tok.id, [error |-> message])>>)

\* POST /api/admin/send-sms. emptyValid: whether the required path phones
\* accepts an empty array, which depends on the version of the ODM.
sendSms(db, tok, body, net, emptyValid) ==
    IF AdminGate(tok) # 0
    THEN Logged(AdminGateFail(db, tok), <<>>)
    ELSE IF body.message = "" \/ body.userIds = <<>>
    THEN Logged(Fail(db, 400, "Invalid parameters"), <<>>)
    ELSE IF \E k \in DOMAIN body.userIds : body.userIds[k] = BadId
    THEN sendSmsFailed(db, tok, body, <<>>, "CastError")
    ELSE
    LET found       == FindIn(db, body.userIds)
        phones      == [i \in DOMAIN found |-> db.users[found[i]].phone]
        smsResponse == sendBulkSMS(phones, net)
        sms         == [k \in DOMAIN smsResponse.results |->
                               smsResponse.results[k].success]
    IN  IF phones = <<>> /\ ~emptyValid
        THEN sendSmsFailed(db, tok, body, sms, "ValidationError")
        ELSE Logged(Ok(db, sms),
                    <<SMSLog(phones, body.message, "sent", tok.id, smsResponse)>>)

MaxLogs == 2

\* id lists of a request: none, one player, two players in the reverse of the
\* stored order, one player twice, an account there is not, an id that is no
\* ObjectId, every account
SendSmsBodies ==
    {[userIds |-> ids, message |-> m] :
        ids \in {<<>>, <<2>>, <<3, 2>>, <<2, 2>>, <<Len(users) + 1>>,
                 <<2, BadId>>, <<1, 2, 3>>},
        m \in {"", "hello"}}

\* the outcomes of the sendSMS calls a request leads to
SendSmsNets(tok, body) ==
    Nets(Len(sendSms(DB, tok, body, [k \in 1..Len(users) |-> TRUE], TRUE).sms))

SendSms ==
    /\ Idle
    /\ UNCHANGED <<replay, inflight>>
    /\ \E tok \in Tokens :
       \E body \in BodiesFor(tok, SendSmsBodies) :
       \E net \in SendSmsNets(tok, body), emptyValid \in BOOLEAN :
          LET r == sendSms(DB, tok, body, net, emptyValid)
          IN  /\ Len(smsLogs) + Len(r.logs) <= MaxLogs
              /\ Handle([op |-> "sendSms", token |-> tok, body |-> body], r)
              /\ smsLogs' = smsLogs \o r.logs

EmailBen == <<"b", "e", "n">>

\* An administrator and two players, each with a phone number of its own
InitSms ==
    /\ users = <<[Account(EmailAdmin, 0) EXCEPT !.phone = "0240000001"],
                 [Account(EmailAmy, 0) EXCEPT !.phone = "0240000002"],
                 [Account(EmailBen, 0) EXCEPT !.phone = "0240000003"]>>
    /\ transactions = <<>>
    /\ games = <<>>
    /\ settings = <<>>
    /\ req = NoRequest
    /\ res = NoResponse
    /\ replay = NoReplay
    /\ inflight = NoInflight
    /\ smsLogs = <<>>

NextSms ==
    \/ SendSms
    \/ Receive

SpecSms == InitSms /\ [][NextSms]_vars

-----------------------------------------------------------------------------
(* Approve and reject of one withdrawal, interleaved *)

\* const transaction = await Transaction.findById(transactionId)
RejectFindTransaction(p) ==
    LET l == Local(p)
    IN  /\ l.op = "rejectWithdrawal" /\ l.pc = "findTransaction"
        /\ SetLocal(p, IF l.body.transactionId \notin DOMAIN transactions
                       THEN Respond(l, 404)
                       ELSE [l EXCEPT !.transaction =
                                         transactions[l.body.transactionId],
                                      !.pc = "populateUser"])
        /\ UNCHANGED <<users, transactions, games, settings, req, res, replay, smsLogs>>

\* .populate('userId'), then the check of the status
RejectPopulateUser(p) ==
    LET l == Local(p)
    IN  /\ l.op = "rejectWithdrawal" /\ l.pc = "populateUser"
        /\ SetLocal(p, IF ~IsPending(l.transaction) THEN Respond(l, 400)
                       ELSE [l EXCEPT !.pc = "saveTransaction"])
        /\ UNCHANGED <<users, transactions, games, settings, req, res, replay, smsLogs>>

\* transaction.status = 'rejected'; ...; await transaction.save()
RejectSaveTransaction(p) ==
    LET l == Local(p)
    IN  /\ l.op = "rejectWithdrawal" /\ l.pc = "saveTransaction"
        /\ transactions' = [transactions EXCEPT ![l.body.transactionId] =
                               [@ EXCEPT !.status = "rejected",
                                         !.processedAt = TRUE,
                                         !.processedBy = l.token.id,
                                         !.reference = IF l.body.reason = ""
                                                       THEN "Rejected by admin"
                                                       ELSE l.body.reason]]
        /\ SetLocal(p, [l EXCEPT !.pc = "notify"])
        /\ UNCHANGED <<users, games, settings, req, res, replay, smsLogs>>

\* await payloqaAPI.sendSMS(...), then res.json
RejectNotify(p) ==
    LET l == Local(p)
    IN  /\ l.op = "rejectWithdrawal" /\ l.pc = "notify"
        /\ \E net \in Nets(1) :
              SetLocal(p, [Respond(l, 200) EXCEPT !.sms = <<sendSMS(net, 1)>>])
        /\ UNCHANGED <<users, transactions, games, settings, req, res, replay, smsLogs>>

\* what an administrator sends to turn the withdrawal down
RaceReject ==
    Proc("rejectWithdrawal", [kind |-> "valid", id |-> 1, isAdmin |-> TRUE],
         [transactionId |-> 1, reason |-> ""])

\* An administrator and a player who has deposited and asked for a withdrawal;
\* two decisions on that withdrawal arrive together
InitDecide ==
    /\ \E b \in 1..(MaxBalance + 1) :
          /\ users = <<Account(EmailAdmin, 0), Account(EmailAmy, b)>>
          /\ \E a \in 1..b :
                transactions = <<Transaction(2, "withdrawal", a, "pending",
                                             "WTH", FALSE, NoUser)>>
    /\ games = <<>>
    /\ settings = <<>>
    /\ req = NoRequest
    /\ res = NoResponse
    /\ replay = NoReplay
    /\ smsLogs = <<>>
    /\ \E first, second \in {RaceApprove, RaceReject} :
          inflight = [start |-> DB, procs |-> <<first, second>>]

NextDecide ==
    \/ \E p \in Procs : ApproveFindTransaction(p)
    \/ \E p \in Procs : ApprovePopulateUser(p)
    \/ \E p \in Procs : ApproveSaveUser(p)
    \/ \E p \in Procs : ApproveSaveTransaction(p)
    \/ \E p \in Procs : ApproveNotify(p)
    \/ \E p \in Procs : RejectFindTransaction(p)
    \/ \E p \in Procs : RejectPopulateUser(p)
    \/ \E p \in Procs : RejectSaveTransaction(p)
    \/ \E p \in Procs : RejectNotify(p)

SpecDecide == InitDecide /\ [][NextDecide]_vars

-----------------------------------------------------------------------------
(* Properties *)

\* The settings a play request reads: the stored document, or the defaults
SettingsRead == EnsureSettings(DB).settings[1]

\* multiplier[matchCount], with multiplier[0] = 0
Multiplier(s, m) ==
    CASE m = 3 -> s.payoutMultipliers.threeMatches
      [] m = 2 -> s.payoutMultipliers.twoMatches
      [] m = 1 -> s.payoutMultipliers.oneMatch
      [] m = 0 -> 0

\* the step answers request op, sent with a token that verifies
Answers(op) == req'.op = op /\ req'.token.kind = "valid"

LastGame == games[Len(games)]

\* C1: in every reachable state every account's balance is >= 0.  The code
\* does not keep it: a completed payment callback with a negative amount is
\* added to the balance as it is.
C1_BalanceNeverNegative == \A i \in DOMAIN users : users[i].balance >= 0

\* what a step that answers an accepted wager does
C2_Settled ==
    LET u    == req'.token.id
        bet  == req'.body.bet
        s    == SettingsRead
        old  == users[u].balance
        g    == games'[Len(games')]
        m    == Cardinality({i \in 1..3 : g.guesses[i] = g.winningNumbers[i]})
        profit == bet * Multiplier(s, m) - bet
    IN  (/\ Answers("play")
         /\ req'.body.guesses \in [1..3 -> DigitStrings]
         /\ bet > 0 /\ s.minBet <= bet /\ bet <= s.maxBet /\ old >= bet)
        => /\ res'.code = 200
           /\ Len(games') = Len(games) + 1
           /\ g.userId = u /\ g.betAmount = bet
           /\ g.matches = m
           /\ g.profit = profit
           /\ users'[u].balance = old + profit
           /\ g.balanceBefore = old
           /\ g.balanceAfter = old + profit

\* C2: an accepted wager (three single-digit guesses, minBet <= bet <= maxBet,
\* balance >= bet) is settled, whatever is drawn, with
\* profit = bet * multiplier[matchCount] - bet, new balance = old balance +
\* profit, and a GameHistory document with balanceBefore = old balance and
\* balanceAfter = old balance + profit.
C2_WagerSettlement == [][C2_Settled]_vars

\* a wager with two matches paid at the default multiplier 10
C2_Witness ==
    /\ req.op = "play" /\ res.code = 200
    /\ LastGame.matches = 2 /\ LastGame.profit = 9
    /\ users[req.token.id].balance = LastGame.balanceBefore + 9

\* what a step that answers a wager outside the limits or the balance does
C3_Rejected ==
    LET u   == req'.token.id
        bet == req'.body.bet
        s   == SettingsRead
    IN  (/\ Answers("play")
         /\ (bet < s.minBet \/ bet > s.maxBet \/ bet > users[u].balance))
        => /\ res'.code = 400 /\ ~res'.success
           /\ users' = users
           /\ games' = games
           /\ transactions' = transactions

\* C3: a play request with bet < minBet, bet > maxBet or bet > balance is
\* rejected, and no balance changes and no GameHistory or Transaction
\* document is created.
C3_RejectedWager == [][C3_Rejected]_vars

\* a bet within the limits that the balance does not cover
C3_Witness ==
    /\ req.op = "play" /\ req.token.kind = "valid"
    /\ Len(req.body.guesses) = 3
    /\ settings # <<>>
    /\ req.body.bet >= settings[1].minBet /\ req.body.bet <= settings[1].maxBet
    /\ req.body.bet > users[req.token.id].balance
    /\ res.code = 400

C3_WitnessBelowMin ==
    /\ req.op = "play" /\ req.token.kind = "valid"
    /\ settings # <<>>
    /\ req.body.bet > 0 /\ req.body.bet < settings[1].minBet
    /\ req.body.bet <= users[req.token.id].balance
    /\ res.code = 400

C3_WitnessAboveMax ==
    /\ req.op = "play" /\ req.token.kind = "valid"
    /\ settings # <<>>
    /\ req.body.bet > settings[1].maxBet
    /\ res.code = 400

\* the step answers an approval or a rejection sent by an administrator
\* about a stored transaction
Decides(op) ==
    /\ req'.op = op
    /\ AdminGate(req'.token) = 0
    /\ req'.body.transactionId \in DOMAIN transactions

\* how a step may change the status of the entries, and what a decision on
\* an entry that is not pending does
C4_Step ==
    /\ \A i \in DOMAIN transactions :
          /\ i \in DOMAIN transactions'
          /\ \/ transactions'[i].status = transactions[i].status
             \/ /\ transactions[i].status = "pending"
                /\ transactions'[i].status \in {"approved", "rejected"}
    /\ ((Decides("approveWithdrawal") \/ Decides("rejectWithdrawal"))
        /\ transactions[req'.body.transactionId].status # "pending")
       => /\ res'.code = 400 /\ ~res'.success
          /\ res'.error = "Transaction already processed"
          /\ transactions' = transactions
          /\ users' = users

\* C4: a withdrawal entry's status only moves pending -> approved or
\* pending -> rejected and never changes afterwards; approving or rejecting
\* an entry that is not pending returns an error and leaves every entry and
\* every balance unchanged.
C4_WithdrawalStatus == [][C4_Step]_vars

\* an approval asked for an entry that was rejected before
C4_Witness ==
    /\ req.op = "approveWithdrawal"
    /\ req.body.transactionId \in DOMAIN transactions
    /\ transactions[req.body.transactionId].status = "rejected"
    /\ res.error = "Transaction already processed"

C4_WitnessReject ==
    /\ req.op = "rejectWithdrawal"
    /\ req.body.transactionId \in DOMAIN transactions
    /\ transactions[req.body.transactionId].status = "approved"
    /\ res.error = "Transaction already processed"

\* what a step that answers an approval the balance does not cover does
C5_Step ==
    LET t == transactions[req'.body.transactionId]
    IN  (/\ Decides("approveWithdrawal")
         /\ t.status = "pending"
         /\ users[t.userId].balance < t.amount)
        => /\ res'.code = 400 /\ ~res'.success
           /\ transactions' = transactions
           /\ users' = users

\* C5: approving a pending withdrawal whose owner's balance is now below the
\* entry's amount fails; the entry stays pending and no balance changes.
C5_ApproveRechecksBalance == [][C5_Step]_vars

\* the balance fell below the amount after the request was made
C5_Witness ==
    /\ req.op = "approveWithdrawal"
    /\ res.error = "User has insufficient balance"
    /\ LET t == transactions[req.body.transactionId]
       IN  /\ t.type = "withdrawal" /\ t.status = "pending"
           /\ users[t.userId].balance < t.amount

\* the entries a step appended to the ledger
Appended == SubSeq(transactions', Len(transactions) + 1, Len(transactions'))

\* what a step that answers a completed wager appends to the ledger
C6_Step ==
    LET u      == req'.token.id
        bet    == req'.body.bet
        g      == games'[Len(games')]
        payout == bet * Multiplier(SettingsRead, g.matches)
        bets   == {i \in DOMAIN Appended : Appended[i].type = "bet"}
        wins   == {i \in DOMAIN Appended : Appended[i].type = "win"}
    IN  (Answers("play") /\ res'.code = 200)
        => /\ SubSeq(transactions', 1, Len(transactions)) = transactions
           /\ Cardinality(bets) = 1
           /\ Cardinality(wins) = IF payout > 0 THEN 1 ELSE 0
           /\ DOMAIN Appended = bets \cup wins
           /\ \A i \in bets : /\ Appended[i].amount = bet
                              /\ Appended[i].status = "completed"
                              /\ Appended[i].userId = u
           /\ \A i \in wins : /\ Appended[i].amount = payout
                              /\ Appended[i].status = "completed"
                              /\ Appended[i].userId = u

\* C6: a wager that is accepted and runs to completion appends exactly one
\* 'bet' entry (completed, amount = bet) and, exactly when the payout
\* bet * multiplier[matchCount] is > 0, one 'win' entry (completed,
\* amount = payout); it appends nothing else.
C6_WagerLedger == [][C6_Step]_vars

\* a paid wager: its bet entry followed by its win entry
C6_Witness ==
    /\ req.op = "play" /\ res.code = 200
    /\ Len(transactions) >= 2
    /\ transactions[Len(transactions) - 1].type = "bet"
    /\ transactions[Len(transactions)].type = "win"
    /\ transactions[Len(transactions)].amount = LastGame.profit + LastGame.betAmount

\* a wager with matches and no payout: its bet entry only
C6_WitnessNoWin ==
    /\ req.op = "play" /\ res.code = 200
    /\ LastGame.matches >= 1
    /\ transactions[Len(transactions)].type = "bet"

\* The number each plainly numeric amount text denotes
NumericAmount ==
    (<<"1">> :> 1) @@ (<<"2">> :> 2) @@ (<<"-", "1">> :> 0 - 1)

\* what a step that answers a payment callback does
C7_Step ==
    LET body == req'.body
    IN  req'.op = "webhook" =>
        /\ (/\ body.status = "completed"
            /\ body.metadata # <<>>
            /\ body.metadata[1] \in DOMAIN users
            /\ body.amount \in DOMAIN NumericAmount)
           => /\ res'.code = 200 /\ res'.success
              /\ users' = [users EXCEPT ![body.metadata[1]].balance =
                                           @ + NumericAmount[body.amount]]
              /\ UNCHANGED <<transactions, games, settings>>
        /\ body.status # "completed"
           => /\ res'.code = 200 /\ res'.success
              /\ UNCHANGED <<users, transactions, games, settings>>

\* C7: a callback with status 'completed' that names an existing account
\* adds exactly the numeric amount to that account's balance and changes
\* nothing else; a callback with any other status is acknowledged and
\* changes nothing that is stored.
C7_DepositEffect == [][C7_Step]_vars

\* the second account was credited 1 and the first account kept its balance
C7_Witness ==
    /\ req.op = "webhook" /\ res.code = 200
    /\ req.body.status = "completed"
    /\ req.body.amount = <<"1">>
    /\ req.body.metadata = <<2>>
    /\ Len(users) = 2
    /\ users[2].balance = 1 /\ users[1].balance = 0

\* a callback with another status, acknowledged
C7_WitnessFailed ==
    /\ req.op = "webhook" /\ res.code = 200 /\ res.success
    /\ req.body.status = "failed"
    /\ users # <<>>

\* C8: every delivery of the same 'completed' callback credits the account
\* again: after n deliveries the balance has grown by n times the amount.
C8_ReplayCredits ==
    LET body == replay.body
    IN  body.amount \in DOMAIN NumericAmount
        => users[body.metadata[1]].balance
              = replay.start + replay.count * NumericAmount[body.amount]

\* the callback for 2 delivered twice
C8_Witness ==
    /\ replay.count = 2
    /\ replay.body.amount = <<"2">>
    /\ res.code = 200
    /\ users[replay.body.metadata[1]].balance = replay.start + 4

\* C9: the match count is the number of positions at which the guessed digit
\* is the drawn digit, for every triple of guessed digits and every triple of
\* drawn digits.
C9_PositionWise ==
    res # NoResponse
    => res.matches =
          Cardinality({i \in 1..3 :
                          req.guesses[i] = <<DigitChars[res.winningNumbers[i] + 1]>>})

\* guesses 1,2,3 against the draw 3,2,1: one match
C9_Witness ==
    /\ req.op = "match"
    /\ req.guesses = << <<"1">>, <<"2">>, <<"3">> >>
    /\ res # NoResponse
    /\ res.winningNumbers = <<3, 2, 1>>
    /\ res.matches = 1

\* The operations that send a notification
NotifyingOps ==
    {"signup", "webhook", "play", "withdrawalRequest", "approveWithdrawal",
     "rejectWithdrawal", "creditUser"}

\* The request the step answered, handled again from the same stored state
\* (and, for a wager, with the same draw) with the notification calls ending
\* as net says
Handled(net) ==
    CASE req'.op = "signup"  -> signup(DB, req'.body, net)
      [] req'.op = "webhook" -> webhook(DB, req'.body, net)
      [] req'.op = "play" ->
            play(DB, req'.token, req'.body,
                 games'[Len(games')].winningNumbers, net)
      [] req'.op = "withdrawalRequest" ->
            withdrawalRequest(DB, req'.token, req'.body, net)
      [] req'.op = "approveWithdrawal" ->
            approveWithdrawal(DB, req'.token, req'.body, net)
      [] req'.op = "rejectWithdrawal" ->
            rejectWithdrawal(DB, req'.token, req'.body, net)
      [] req'.op = "creditUser" ->
            creditUser(DB, req'.token, req'.body, net)

\* what a step that answers a notifying operation does under every
\* outcome of its notification calls
C10_Step ==
    (req'.op \in NotifyingOps /\ res'.sms # <<>>)
    => \A net \in Nets(Len(res'.sms)) :
          /\ Handled(net).sms = [k \in 1..Len(res'.sms) |-> net[k]]
          /\ Handled(net).db = [users |-> users', transactions |-> transactions',
                                games |-> games', settings |-> settings']
          /\ Handled(net).success = res'.success
          /\ Handled(net).code = res'.code
          /\ res'.success

\* C10: for every operation that sends a notification, what is stored after
\* the operation and the success of its response are the same whether the
\* notification calls succeed or fail.
C10_NotificationIndependence == [][C10_Step]_vars

\* a paid wager whose notification failed
C10_Witness ==
    /\ req.op = "play"
    /\ res.sms = <<FALSE>>
    /\ res.success
    /\ games # <<>> /\ LastGame.matches >= 2

\* an operation op answered with success after a notification call failed
C10_Failed(op) ==
    /\ req.op = op
    /\ \E k \in DOMAIN res.sms : ~res.sms[k]
    /\ res.success

C10_WitnessSignup == C10_Failed("signup")
C10_WitnessWebhook == C10_Failed("webhook")
C10_WitnessRequest == C10_Failed("withdrawalRequest")
C10_WitnessApprove == C10_Failed("approveWithdrawal")
C10_WitnessReject == C10_Failed("rejectWithdrawal")
C10_WitnessCredit == C10_Failed("creditUser")

\* Whether each email the requests use has 'admin' in it, letter case aside
HasAdmin == (EmailAdmin :> TRUE) @@ (EmailAmy :> FALSE)

\* what a step that answers a signup does
C11_Step ==
    LET body == req'.body
    IN  req'.op = "signup" =>
        IF /\ body.email # <<>> /\ body.password # "" /\ body.phone # ""
           /\ \A i \in DOMAIN users : users[i].email # body.email
        THEN /\ res'.code = 200 /\ res'.success
             /\ Len(users') = Len(users) + 1
             /\ SubSeq(users', 1, Len(users)) = users
             /\ users'[Len(users')].email = body.email
             /\ users'[Len(users')].balance = 0
             /\ users'[Len(users')].isAdmin = HasAdmin[body.email]
        ELSE /\ res'.code = 400 /\ ~res'.success
             /\ users' = users

\* C11: a signup with a non-empty email, password and phone and an email that
\* is not registered creates exactly one account, with balance 0 and with the
\* admin flag telling whether the lower-cased email contains 'admin'; a signup
\* with a registered email or a missing field creates no account.
C11_Signup == [][C11_Step]_vars

\* the account made for 'Admin', an administrator with balance 0
C11_Witness ==
    /\ req.op = "signup" /\ res.code = 200
    /\ users[Len(users)].email = EmailAdmin
    /\ users[Len(users)].isAdmin
    /\ users[Len(users)].balance = 0

\* a signup with a registered email, refused
C11_WitnessDuplicate ==
    /\ req.op = "signup" /\ res.error = "Email already exists"
    /\ Len(users) = 1

\* The settings an update starts from: the stored document, or a new one
SettingsBefore == IF settings = <<>> THEN DefaultSettings ELSE settings[1]

\* what an accepted settings update does to the fields it was not given
C12_Step ==
    LET body == req'.body
        old  == SettingsBefore
        new  == settings'[1]
    IN  (req'.op = "updateSettings" /\ res'.code = 200)
        => /\ body.minBet = <<>> => new.minBet = old.minBet
           /\ body.maxBet = <<>> => new.maxBet = old.maxBet
           /\ \A k \in MultKeys :
                 (body.payoutMultipliers = <<>>
                  \/ k \notin DOMAIN body.payoutMultipliers[1])
                 => new.payoutMultipliers[k] = old.payoutMultipliers[k]

\* C12: a settings update changes only the fields supplied: minBet, maxBet and
\* every entry of the multiplier table that the request does not supply keep
\* their previous values.  The code does not keep it: a request that supplies
\* some entries of the table replaces the whole table, and the entries it
\* leaves out go back to their defaults.
C12_PartialUpdate == [][C12_Step]_vars

\* the state after an update that supplied one entry of a customised table
C12_Reached ==
    /\ req.op = "updateSettings" /\ res.code = 200
    /\ req.body.payoutMultipliers = <<PartialMultipliers>>
    /\ settings[1].minBet = 2
    /\ settings[1].payoutMultipliers.threeMatches = 100

\* The operations behind authenticateToken, and those also behind requireAdmin
AdminOps ==
    {"creditUser", "approveWithdrawal", "rejectWithdrawal", "updateSettings"}

ProtectedOps == {"play", "withdrawalRequest"} \cup AdminOps

\* what a step does that answers a protected request sent without a token,
\* with a token that does not verify, or an administrator's request sent with
\* a token whose admin flag is false
C13_Step ==
    LET tok == req'.token
    IN  req'.op \in ProtectedOps =>
        /\ tok.kind = "none"
           => /\ res'.code = 401 /\ ~res'.success
              /\ res'.error = "Access token required"
              /\ res'.sms = <<>>
              /\ UNCHANGED <<users, transactions, games, settings>>
        /\ tok.kind = "invalid"
           => /\ res'.code = 403 /\ ~res'.success
              /\ res'.error = "Invalid or expired token"
              /\ res'.sms = <<>>
              /\ UNCHANGED <<users, transactions, games, settings>>
        /\ (req'.op \in AdminOps /\ tok.kind = "valid" /\ ~tok.isAdmin)
           => /\ res'.code = 403 /\ ~res'.success
              /\ res'.error = "Admin access required"
              /\ res'.sms = <<>>
              /\ UNCHANGED <<users, transactions, games, settings>>

\* C13: a protected request without a token is rejected with 401, one with an
\* invalid or expired token with 403, and an administrator's operation called
\* with a token whose admin flag is false with 403; in all three cases the
\* handler does not run: nothing stored changes and no notification is sent.
C13_Gate == [][C13_Step]_vars

\* a credit that would have been made, refused to a player
C13_Witness ==
    /\ req.op = "creditUser"
    /\ req.token.kind = "valid" /\ ~req.token.isAdmin
    /\ req.body.userId \in DOMAIN users /\ req.body.amount > 0
    /\ res.code = 403 /\ res.error = "Admin access required"

\* a wager sent without a token
C13_WitnessMissing ==
    /\ req.op = "play" /\ req.token.kind = "none" /\ res.code = 401
    /\ users # <<>>

\* an approval sent with a token that does not verify
C13_WitnessInvalid ==
    /\ req.op = "approveWithdrawal" /\ req.token.kind = "invalid"
    /\ res.code = 403
    /\ transactions # <<>>

\* what a step that answers a withdrawal request or a rejection does
C14_Step ==
    LET id == req'.body.transactionId
    IN  /\ req'.op \in {"withdrawalRequest", "rejectWithdrawal"}
           => /\ users' = users
              /\ UNCHANGED <<games, settings>>
              /\ ~res'.success => transactions' = transactions
        /\ (req'.op = "withdrawalRequest" /\ res'.success)
           => /\ Len(transactions') = Len(transactions) + 1
              /\ SubSeq(transactions', 1, Len(transactions)) = transactions
              /\ LET t == transactions'[Len(transactions')]
                 IN  /\ t.type = "withdrawal" /\ t.status = "pending"
                     /\ t.userId = req'.token.id
                     /\ t.amount = req'.body.amount
        /\ (req'.op = "rejectWithdrawal" /\ res'.success)
           => /\ DOMAIN transactions' = DOMAIN transactions
              /\ \A i \in DOMAIN transactions :
                    i # id => transactions'[i] = transactions[i]
              /\ transactions'[id].status = "rejected"
              /\ [transactions'[id] EXCEPT
                     !.status = transactions[id].status,
                     !.reference = transactions[id].reference,
                     !.processedAt = transactions[id].processedAt,
                     !.processedBy = transactions[id].processedBy]
                 = transactions[id]

\* C14: a withdrawal request and a rejection never change a balance: a
\* successful request only adds one pending withdrawal entry (nothing is held),
\* and a successful rejection only changes that entry's status, reference and
\* processing stamp.
C14_NoBalanceEffect == [][C14_Step]_vars

\* a request for the whole balance, accepted with the balance still there
C14_Witness ==
    /\ req.op = "withdrawalRequest" /\ res.success
    /\ transactions[Len(transactions)].status = "pending"
    /\ transactions[Len(transactions)].amount = 1
    /\ users[req.token.id].balance = 1

\* a rejection with a reason, and the owner's balance as it was
C14_WitnessReject ==
    /\ req.op = "rejectWithdrawal" /\ res.success
    /\ transactions[req.body.transactionId].status = "rejected"
    /\ transactions[req.body.transactionId].reference = "fraud"
    /\ users[transactions[req.body.transactionId].userId].balance = 1

\* The handler of a request run from db as one step, with the draw the
\* request made when it ran step by step
Atomic(db, l) ==
    IF l.op = "play"
    THEN play(db, l.token, l.body, l.winningNumbers, [k \in 1..1 |-> TRUE]).db
    ELSE approveWithdrawal(db, l.token, l.body, [k \in 1..1 |-> TRUE]).db

\* the stored state after request p, then request q, each run alone
Serial(p, q) == Atomic(Atomic(inflight.start, Local(p)), Local(q))

\* A request that ran to its end before the other began leaves what its
\* handler leaves when run as one step
SerialRunAgrees ==
    \A p, q \in Procs :
        (/\ p # q /\ Local(p).pc = "done"
         /\ Local(q).pc \in {"findUser", "findTransaction"})
        => DB = Atomic(inflight.start, Local(p))

\* the requests whose user.save() has been done
Saved == {p \in Procs :
             Local(p).pc \in {"saveGame", "saveBet", "saveWin",
                              "saveTransaction", "notify"}
             \/ (Local(p).pc = "done" /\ Local(p).code \in {200, 500})}

\* C15: balance updates are not atomic across requests: a handler saves the
\* balance it computed from its own earlier read, so the stored balance is
\* always the starting balance or the balance some handler computed locally,
\* whatever another request saved in between; with two wagers, or a wager and
\* an approval, interleaved there is a final balance that no serial order of
\* the two requests produces (C15_Witness, C15_WitnessApprove).
C15_StaleWrite ==
    /\ users[1] = inflight.start.users[1]
    /\ users[2].balance \in
          {inflight.start.users[2].balance} \cup {Local(p).balance : p \in Saved}

\* both requests answered 200 and the balance is that of neither serial order
LostUpdate ==
    /\ \A p \in Procs :
          Local(p).pc = "done" /\ Local(p).code = 200
    /\ users[2].balance # Serial(1, 2).users[2].balance
    /\ users[2].balance # Serial(2, 1).users[2].balance

\* two wagers
C15_Witness == LostUpdate /\ Local(2).op = "play"

\* a wager and an approval
C15_WitnessApprove == LostUpdate /\ Local(2).op = "approveWithdrawal"

\* what a step that answers an approval the balance covers does
C16_Step ==
    LET id == req'.body.transactionId
        t  == transactions[id]
    IN  (/\ Decides("approveWithdrawal")
         /\ t.status = "pending"
         /\ users[t.userId].balance >= t.amount)
        => /\ res'.code = 200 /\ res'.success
           /\ users' = [users EXCEPT ![t.userId].balance = @ - t.amount]
           /\ transactions' =
                 [transactions EXCEPT ![id] =
                     [t EXCEPT !.status = "approved", !.processedAt = TRUE,
                               !.processedBy = req'.token.id]]
           /\ UNCHANGED <<games, settings>>

\* C16: approving a pending withdrawal whose owner's balance is >= the amount
\* takes exactly the amount off that balance, sets the status to approved and
\* records the approving administrator and a processing time; no other
\* account and no other entry changes.
C16_ApproveEffect == [][C16_Step]_vars

\* the player's whole balance paid out by administrator 1; the
\* administrator's own balance is as it was
C16_Witness ==
    /\ req.op = "approveWithdrawal" /\ res.code = 200
    /\ LET t == transactions[req.body.transactionId]
       IN  /\ t.status = "approved" /\ t.processedAt /\ t.processedBy = 1
           /\ t.userId = 2 /\ t.amount = 1
           /\ users[2].balance = 0
           /\ users[1].balance = 1

\* the entries of one kind in the ledger
Entries(type) == {i \in DOMAIN transactions : transactions[i].type = type}

\* C17: a wager's effects are stored in the order balance, GameHistory
\* document, 'bet' entry, 'win' entry, notification: whenever the wager's
\* GameHistory document is stored its balance is stored, a 'bet' entry is
\* stored only after the document, a 'win' entry only after the 'bet' entry,
\* and the notification is sent only after the entries.  A handler that stops
\* between two steps leaves the balance changed with the document or the
\* entries missing (C17_Witness), never the reverse.
C17_Order ==
    LET l == Local(1)
    IN  /\ Len(games) <= 1
        /\ games # <<>>
           => /\ users[l.token.id].balance = games[1].balanceAfter
              /\ games[1].balanceBefore = inflight.start.users[l.token.id].balance
              /\ games[1].balanceAfter = games[1].balanceBefore + games[1].profit
        /\ Cardinality(Entries("bet")) <= Len(games)
        /\ Cardinality(Entries("win")) <= Cardinality(Entries("bet"))
        /\ \A i \in Entries("win") : \E j \in Entries("bet") : j < i
        /\ l.sms # <<>>
           => /\ Cardinality(Entries("bet")) = 1
              /\ Cardinality(Entries("win")) = IF l.winAmount > 0 THEN 1 ELSE 0

\* the balance of a winning wager is stored; its GameHistory document and its
\* entries are not
C17_Witness ==
    /\ Local(1).pc = "saveGame"
    /\ Local(1).matches = 2
    /\ users[2].balance = inflight.start.users[2].balance + 9
    /\ games = <<>>
    /\ transactions = <<>>

\* the balance and the document are stored; the entries are not
C17_WitnessNoLedger ==
    /\ Local(1).pc = "saveBet"
    /\ users[2].balance # inflight.start.users[2].balance
    /\ Len(games) = 1
    /\ transactions = <<>>

\* the 'bet' entry is stored; the 'win' entry of the wager is not
C17_WitnessNoWin ==
    /\ Local(1).pc = "saveWin"
    /\ Cardinality(Entries("bet")) = 1
    /\ Entries("win") = {}

\* the kind of entry that records the balance change each operation makes
EntryKind ==
    [webhook |-> "deposit", play |-> "bet", creditUser |-> "credit",
     approveWithdrawal |-> "withdrawal"]

\* the step stored an entry of the operation's kind for account u: a new
\* entry, or for an approval the withdrawal entry turned approved
Recorded(u) ==
    /\ req'.op \in DOMAIN EntryKind
    /\ IF req'.op = "approveWithdrawal"
       THEN \E i \in DOMAIN transactions :
               /\ transactions[i].type = "withdrawal"
               /\ transactions[i].userId = u
               /\ transactions[i].status = "pending"
               /\ transactions'[i].status = "approved"
       ELSE \E i \in DOMAIN Appended :
               /\ Appended[i].type = EntryKind[req'.op]
               /\ Appended[i].userId = u

\* a step that changes an account's balance
C18_Step ==
    \A u \in DOMAIN users :
        users'[u].balance # users[u].balance => Recorded(u)

\* C18: every event that changes a balance (deposit, approved withdrawal, bet,
\* win, admin credit) is recorded by a ledger entry of the corresponding kind
\* for that account.  The code does not keep it: the payment callback credits
\* the balance and stores no 'deposit' entry.
C18_Recorded == [][C18_Step]_vars

\* the same with deposits left aside: holds for approvals and credits, and
\* for the wagers that are answered 200
C18_StepButDeposits ==
    (req'.op # "webhook" /\ res'.code # 500) => C18_Step

C18_RecordedButDeposits == [][C18_StepButDeposits]_vars

\* the withdrawal entries of account u with a status
Withdrawals(u, status) ==
    {i \in DOMAIN transactions :
        /\ transactions[i].type = "withdrawal"
        /\ transactions[i].userId = u
        /\ transactions[i].status = status}

RECURSIVE AmountSum(_)
\* the sum of the amounts of a set of entries
AmountSum(ids) ==
    IF ids = {} THEN 0
    ELSE LET i == CHOOSE j \in ids : TRUE
         IN  transactions[i].amount + AmountSum(ids \ {i})

\* account u has asked for more than it holds
Overcommitted(u) ==
    /\ users[u].balance >= 0
    /\ AmountSum(Withdrawals(u, "pending")) > users[u].balance

\* what a step that answers an approval does to a balance that is not negative
C19_Step ==
    req'.op = "approveWithdrawal"
    => \A u \in DOMAIN users :
          /\ users[u].balance >= 0 => users'[u].balance >= 0
          /\ users'[u].balance < users[u].balance
             => AmountSum(Withdrawals(u, "pending")) - users[u].balance
                   = LET pending == {i \in Withdrawals(u, "pending") :
                                        transactions'[i].status = "pending"}
                     IN  AmountSum(pending) - users'[u].balance

\* C19: a withdrawal request holds nothing, so an account can have pending
\* withdrawals that add up to more than its balance (C19_WitnessOvercommitted);
\* approvals handled one at a time never take a balance below zero, because an
\* approval for more than what is left fails: an approval that pays takes the
\* same amount off the balance and off the pending sum.
C19_NoOverdraft == [][C19_Step]_vars

\* two pending withdrawals of the whole balance
C19_WitnessOvercommitted ==
    \E u \in DOMAIN users :
        /\ users[u].balance = 1
        /\ Cardinality(Withdrawals(u, "pending")) = 2
        /\ Overcommitted(u)

\* one of them was approved and paid, and the approval of the other is refused
C19_Witness ==
    /\ req.op = "approveWithdrawal"
    /\ res.error = "User has insufficient balance"
    /\ \E u \in DOMAIN users :
          /\ users[u].balance = 0
          /\ Cardinality(Withdrawals(u, "approved")) = 1
          /\ Withdrawals(u, "pending") = {req.body.transactionId}
          /\ Overcommitted(u)

\* what a step that answers an administrator's credit does
C20_Step ==
    LET body == req'.body
    IN  (req'.op = "creditUser" /\ AdminGate(req'.token) = 0) =>
        IF body.userId = 0 \/ body.amount <= 0
        THEN /\ res'.code = 400 /\ res'.error = "Invalid parameters"
             /\ UNCHANGED <<users, transactions>>
        ELSE IF body.userId \notin DOMAIN users
        THEN /\ res'.code = 404 /\ res'.error = "User not found"
             /\ UNCHANGED <<users, transactions>>
        ELSE /\ res'.code = 200 /\ res'.success
             /\ users' = [users EXCEPT ![body.userId].balance = @ + body.amount]
             /\ Len(transactions') = Len(transactions) + 1
             /\ SubSeq(transactions', 1, Len(transactions)) = transactions
             /\ LET t == transactions'[Len(transactions')]
                IN  /\ t.type = "credit" /\ t.status = "completed"
                    /\ t.userId = body.userId
                    /\ t.amount = body.amount
                    /\ t.processedBy = req'.token.id

\* C20: an administrator's credit of an amount > 0 to an existing account adds
\* exactly the amount to that account's balance and creates exactly one
\* completed 'credit' entry stamped with the administrator; without an account
\* id or with an amount <= 0 it is rejected as invalid, with an unknown account
\* id as not found, and a rejected credit changes no balance and no entry.
C20_Credit == [][C20_Step]_vars

\* administrator 1 credited 1 to account 2, which held 0
C20_Witness ==
    /\ req.op = "creditUser" /\ res.code = 200
    /\ req.token.id = 1 /\ req.body.userId = 2
    /\ users[2].balance = 1
    /\ LET t == transactions[Len(transactions)]
       IN  /\ t.type = "credit" /\ t.status = "completed"
           /\ t.userId = 2 /\ t.amount = 1 /\ t.processedBy = 1

\* a credit of a negative amount, and a credit to an account there is not
C20_WitnessInvalid ==
    /\ req.op = "creditUser" /\ res.code = 400
    /\ req.token.isAdmin /\ req.body.amount < 0

C20_WitnessNotFound ==
    /\ req.op = "creditUser" /\ res.code = 404
    /\ req.body.userId = Len(users) + 1

RECURSIVE ProfitSum(_)
\* the sum of profit over a set of wager records
ProfitSum(ids) ==
    IF ids = {} THEN 0
    ELSE LET i == CHOOSE j \in ids : TRUE
         IN  games[i].profit + ProfitSum(ids \ {i})

\* the dashboard has answered with its figures
StatsAnswered == req.op = "stats" /\ res.code = 200

C21_WitnessLost ==
    /\ StatsAnswered
    /\ games # <<>>
    /\ Entries("credit") # {}
    /\ res.stats.houseProfit = 1

\* an administrator's send-SMS request with a message and a list of ids
SendSmsCall(request) ==
    /\ request.op = "sendSms"
    /\ request.token.kind = "valid"
    /\ request.token.isAdmin
    /\ request.body.message # ""
    /\ request.body.userIds # <<>>

\* the accounts an id list names
Named(userIds) ==
    {i \in DOMAIN users : \E k \in DOMAIN userIds : userIds[k] = i}

\* the account a phone number belongs to
PhoneOwner(phone) == CHOOSE i \in DOMAIN users : users[i].phone = phone

\* the bulk result of a log: every recipient of the list attempted exactly
\* once and in order, and the counts add up
BulkResultSound(log, userIds) ==
    LET b == log.response
    IN  /\ b.total = Len(log.phones)
        /\ b.sent + b.failed = b.total
        /\ b.sent = Cardinality({k \in DOMAIN b.results : b.results[k].success})
        /\ Len(b.results) = b.total
        /\ \A k \in DOMAIN b.results : b.results[k].phone = log.phones[k]
        /\ \A i \in Named(userIds) :
              Cardinality({k \in DOMAIN b.results :
                              b.results[k].phone = users[i].phone}) = 1
        /\ \A k \in DOMAIN b.results :
              PhoneOwner(b.results[k].phone) \in Named(userIds)
        /\ \A k, l \in DOMAIN b.results :
              k < l => PhoneOwner(b.results[k].phone)
                          < PhoneOwner(b.results[l].phone)

\* what a step that answers such a request does to the logs
C22_Step ==
    (Idle /\ SendSmsCall(req')) =>
        LET userIds == req'.body.userIds
            log     == smsLogs'[Len(smsLogs')]
        IN  /\ Len(smsLogs') = Len(smsLogs) + 1
            /\ SubSeq(smsLogs', 1, Len(smsLogs)) = smsLogs
            /\ log.sentBy = req'.token.id
            /\ log.message = req'.body.message
            /\ log.status = "sent" => BulkResultSound(log, userIds)
            /\ log.status = "sent" =>
                  res'.sms = [k \in DOMAIN log.response.results |->
                                 log.response.results[k].success]
            /\ (Named(userIds) # {} /\ \A k \in DOMAIN userIds : userIds[k] # BadId)
                  => log.status = "sent" /\ res'.code = 200

\* C22: an administrator's send-SMS request with a message and a non-empty
\* list of ids creates exactly one log whatever the delivery results are,
\* and the bulk result the log records has sent + failed = total, with every
\* recipient attempted exactly once and in order.
C22_SendSmsLog == [][C22_Step]_vars

\* every recipient of a request failed, and the request was logged as sent
C22_Witness ==
    /\ SendSmsCall(req)
    /\ res.code = 200
    /\ smsLogs # <<>>
    /\ smsLogs[Len(smsLogs)].status = "sent"
    /\ smsLogs[Len(smsLogs)].response.total = 2
    /\ smsLogs[Len(smsLogs)].response.sent = 0
    /\ smsLogs[Len(smsLogs)].response.failed = 2

\* one of three recipients failed
C22_WitnessMixed ==
    /\ SendSmsCall(req)
    /\ res.sms = <<TRUE, FALSE, TRUE>>
    /\ smsLogs[Len(smsLogs)].response.sent = 2
    /\ smsLogs[Len(smsLogs)].response.failed = 1

\* the query rejected the list: one log with status failed, answer 500
C22_WitnessFailed ==
    /\ SendSmsCall(req)
    /\ res.code = 500
    /\ Len(smsLogs) = 1
    /\ smsLogs[1].status = "failed"

\* both decisions on the withdrawal have been answered
Decided == \A p \in Procs : Local(p).pc = "done"

\* the requests answered 200
Succeeded == {p \in Procs : Local(p).code = 200}

\* what the player's balance has lost since the requests arrived
Debited == inflight.start.users[2].balance - users[2].balance

\* the decisions a run has: an approval next to a rejection
ApproveAndReject ==
    {Local(p).op : p \in Procs} = {"approveWithdrawal", "rejectWithdrawal"}

\* C23: whatever the interleaving of approve and reject requests on one
\* pending withdrawal, at most one of them succeeds, and the account has been
\* debited by the amount exactly when the final status is approved: never
\* with a final status rejected, never twice.
C23_Consistent ==
    Decided =>
        /\ Cardinality(Succeeded) <= 1
        /\ Debited \in {0, transactions[1].amount}
        /\ Debited = transactions[1].amount
              <=> transactions[1].status = "approved"

\* an approval and a rejection both succeed
C23_BothSucceed ==
    (Decided /\ ApproveAndReject) => Cardinality(Succeeded) <= 1

\* the account is debited and the withdrawal ends rejected
C23_DebitedRejected ==
    (Decided /\ ApproveAndReject)
        => ~(Debited > 0 /\ transactions[1].status = "rejected")

\* two approvals debit the account twice
C23_DebitedTwice ==
    Decided => Debited <= transactions[1].amount

\* the second request finds the transaction after the first was answered
C23_OneAfterTheOther ==
    \E p, q \in Procs :
        /\ p # q
        /\ Local(p).pc = "done"
        /\ Local(q).pc = "findTransaction"

\* requests that run one after the other are consistent
C23_SerialConsistent == [](C23_OneAfterTheOther => []C23_Consistent)

RECURSIVE SumOver(_, _)
\* the sum of the amounts of the entries ids of a ledger
SumOver(ledger, ids) ==
    IF ids = {} THEN 0
    ELSE LET i == CHOOSE j \in ids : TRUE
         IN  ledger[i].amount + SumOver(ledger, ids \ {i})

\* the entries of account u of a type in a ledger
EntriesOf(ledger, u, type) ==
    {i \in DOMAIN ledger : ledger[i].userId = u /\ ledger[i].type = type}

\* credits + wins - bets - approved withdrawals of account u in a ledger
LedgerBalance(ledger, u) ==
    SumOver(ledger, EntriesOf(ledger, u, "credit"))
    + SumOver(ledger, EntriesOf(ledger, u, "win"))
    - SumOver(ledger, EntriesOf(ledger, u, "bet"))
    - SumOver(ledger, {i \in EntriesOf(ledger, u, "withdrawal") :
                          ledger[i].status = "approved"})

\* what a callback credits for an amount: its number, or its numeric prefix
CreditedAmount == NumericAmount @@ (<<"2", "x">> :> 2)

\* the amount a completed deposit callback credits to account u in this step
DepositCredited(u) ==
    IF /\ req'.op = "webhook"
       /\ res'.code = 200
       /\ req'.body.status = "completed"
       /\ req'.body.metadata = <<u>>
    THEN CreditedAmount[req'.body.amount]
    ELSE 0

\* the balance of account u in a collection of accounts, 0 before its signup
BalanceOf(accounts, u) ==
    IF u \in DOMAIN accounts THEN accounts[u].balance ELSE 0

\* a request handled to its end moves each balance by what the callback
\* credited and by what the step added to the account's side of the ledger
C24_Step ==
    \A u \in DOMAIN users' :
        BalanceOf(users', u) - BalanceOf(users, u)
            = DepositCredited(u)
              + LedgerBalance(transactions', u) - LedgerBalance(transactions, u)

\* C24: with handlers run one at a time to completion, each account's balance
\* is the sum of the amounts completed deposit callbacks credited to it, plus
\* its 'credit' entries, plus its 'win' entries, minus its 'bet' entries,
\* minus its approved 'withdrawal' entries: the identity holds at the start,
\* where there is no account, and every request would have to keep it.  The
\* code does not: a wager whose game record fails to save has already saved
\* the balance and writes no entry.
C24_BalanceIdentity == [][C24_Step]_vars

\* a wager that stored no record after it saved the balance (answered 500),
\* or one paid with a negative multiplier: a negative win amount, no 'win' entry
OffLedgerWager ==
    /\ req'.op = "play"
    /\ \/ res'.code = 500
       \/ /\ res'.code = 200
          /\ games'[Len(games')].profit + games'[Len(games')].betAmount < 0

\* the same with those wagers left aside
C24_StepOtherwise == ~OffLedgerWager => C24_Step

C24_IdentityOtherwise == [][C24_StepOtherwise]_vars

\* a wager answered 500 has taken the stake from the balance of its player
C24_FailedWager ==
    /\ req.op = "play"
    /\ res.code = 500
    /\ users[req.token.id].balance = 0
    /\ transactions = <<>>

=============================================================================
